---- MODULE Spec2Model ----
(***************************************************************************)
(* TaskFlow: the nested-loop Executor (tasks.py), the ProgressManager that *)
(* holds the two progress bars and the activity log (progress.py), the     *)
(* Live display whose refresh thread repaints it, and the `run` command    *)
(* that wires them together (cli.py).                                      *)
(*                                                                         *)
(* Time is counted in whole seconds.  Probabilities and random draws are   *)
(* counted in tenths: probability 10 is 1.0, a draw is one of 0..9, i.e.   *)
(* a value of [0,1).                                                       *)
(***************************************************************************)
EXTENDS Integers, Sequences, FiniteSets, TLC

\* ---------------------------------------------------------------- bounds
MaxOuter == 1
MaxMiddle == 1
MaxInner == 2
MaxTime == 2
MaxArg == 3

\* ------------------------------------------------- LoopConfig (config.py)
outer_min == 0
outer_max == 1000
middle_min == 0
middle_max == 10
inner_min == 1
inner_max == 20

\* number of trailing messages shown by _create_layout
ViewLen == 10

\* ----------------------------------------------------------------- inputs
OuterInputs == (-1 .. MaxOuter) \cup {outer_max + 1}
MiddleInputs == (-1 .. MaxMiddle) \cup {middle_max + 1}
InnerInputs == (0 .. MaxInner) \cup {inner_max + 1}
ProbInputs == {-1, 0, 3, 10, 11}
RandomDraws == 0 .. 9

NoConfig == [outer_iterations |-> -1, middle_iterations |-> -1,
             inner_iterations |-> -1, short_circuit_probability |-> -1]

\* TaskConfig.__post_init__: the three range checks
ValidConfig(a) ==
    /\ outer_min <= a.outer_iterations /\ a.outer_iterations <= outer_max
    /\ middle_min <= a.middle_iterations /\ a.middle_iterations <= middle_max
    /\ inner_min <= a.inner_iterations /\ a.inner_iterations <= inner_max

\* What typer lets through before the body of run is entered: the callbacks
\* validate_outer, validate_middle and validate_inner, and min=0.0, max=1.0
\* of the --short-circuit option (probabilities are counted in tenths)
OptionsAccepted(a) ==
    /\ outer_min <= a.outer_iterations /\ a.outer_iterations <= outer_max
    /\ middle_min <= a.middle_iterations /\ a.middle_iterations <= middle_max
    /\ inner_min <= a.inner_iterations /\ a.inner_iterations <= inner_max
    /\ 0 <= a.short_circuit_probability /\ a.short_circuit_probability <= 10

\* TaskStats(): all counters zero, no messages
NewStats == [total_outer_iterations |-> 0, total_middle_iterations |-> 0,
             total_inner_iterations |-> 0, short_circuit_count |-> 0,
             total_elapsed_seconds |-> 0, messages |-> << >>]

\* A log line: its text template and the numbers formatted into it.
Msg(kind, a, b, c) == [kind |-> kind, a |-> a, b |-> b, c |-> c]

\* TaskStats.add_message
StatsAddMessage(s, m) == [s EXCEPT !.messages = Append(@, m)]

\* format_time: seconds -> <<HH, MM, SS>>
format_time(seconds) ==
    << seconds \div 3600, (seconds % 3600) \div 60, (seconds % 3600) % 60 >>

\* status text "n/d" and the fixed text "Complete!"
Ratio(n, d) == [label |-> "ratio", n |-> n, d |-> d]
CompleteLabel == [label |-> "Complete!", n |-> 0, d |-> 0]

\* Progress.add_task(total=..., time_display="00:00:00", status="0/total")
NewTask(total) == [completed |-> 0, total |-> total,
                   time_display |-> format_time(0), status |-> Ratio(0, total)]

\* ProgressManager(console, outer_total, inner_total) before __aenter__
NewProgress(outer_total, inner_total) ==
    [outer_total |-> outer_total, inner_total |-> inner_total,
     messages |-> << >>,
     outer_start_time |-> 0, inner_start_time |-> 0,
     current_outer_step |-> 0, inner_completed_steps |-> 0,
     outer_task |-> NewTask(0), inner_task |-> NewTask(0)]

\* ProgressManager.__aenter__: add both tasks, record both start times
EnterProgress(p, t) ==
    [p EXCEPT !.outer_task = NewTask(p.outer_total),
              !.inner_task = NewTask(p.inner_total),
              !.outer_start_time = t,
              !.inner_start_time = t]

\* a store no longer than the view: self._messages = deque(maxlen=10)
add_message_Capped(p, m) ==
    [p EXCEPT !.messages = IF Len(@) < 10 THEN Append(@, m)
                           ELSE Append(Tail(@), m)]

\* ProgressManager.add_message
add_message(p, m) == [p EXCEPT !.messages = Append(@, m)]

\* ---- the setters, each split at the statement boundary between the
\* ---- assignment of the manager's own fields and the Progress.update call

\* advance_outer, line 181
advance_outer_fields(p, step) == [p EXCEPT !.current_outer_step = step]

\* the bar is moved to the index of the iteration, not to the count of
\* iterations done: completed = step - 1
advance_outer_update_Behind(p, step, t) ==
    [p EXCEPT !.outer_task.completed = step - 1,
              !.outer_task.time_display = format_time(t - p.outer_start_time),
              !.outer_task.status = Ratio(step - 1, p.outer_total)]

\* advance_outer, lines 182-188
advance_outer_update(p, step, t) ==
    [p EXCEPT !.outer_task.completed = step,
              !.outer_task.time_display = format_time(t - p.outer_start_time),
              !.outer_task.status = Ratio(step, p.outer_total)]

\* a reset that zeroes the step field and leaves the inner timer running
reset_inner_fields_KeepsClock(p, t) == [p EXCEPT !.inner_completed_steps = 0]

\* reset_inner, lines 193-194
reset_inner_fields(p, t) ==
    [p EXCEPT !.inner_start_time = t, !.inner_completed_steps = 0]

\* reset_inner, lines 195-201
reset_inner_update(p, new_total) ==
    [p EXCEPT !.inner_task.completed = 0,
              !.inner_task.total = new_total,
              !.inner_task.time_display = format_time(0),
              !.inner_task.status = Ratio(0, new_total)]

\* advance_inner, line 206
advance_inner_fields(p, step) == [p EXCEPT !.inner_completed_steps = step]

\* advance_inner, lines 207-214
advance_inner_update(p, step, total, t) ==
    [p EXCEPT !.inner_task.completed = step,
              !.inner_task.total = total,
              !.inner_task.time_display = format_time(t - p.inner_start_time),
              !.inner_task.status = Ratio(step, total)]

\* complete_outer
complete_outer(p, t) ==
    [p EXCEPT !.outer_task.completed = p.outer_total,
              !.outer_task.time_display = format_time(t - p.outer_start_time),
              !.outer_task.status = CompleteLabel]

\* a completion that fills the bar and leaves its total as it was
complete_inner_KeepsTotal(p, total, t) ==
    [p EXCEPT !.inner_task.completed = total,
              !.inner_task.time_display = format_time(t - p.inner_start_time),
              !.inner_task.status = CompleteLabel]

\* complete_inner
complete_inner(p, total, t) ==
    [p EXCEPT !.inner_task.completed = total,
              !.inner_task.total = total,
              !.inner_task.time_display = format_time(t - p.inner_start_time),
              !.inner_task.status = CompleteLabel]

\* the whole calls, as a single-threaded caller sees them
advance_outer(p, step, t) == advance_outer_update(advance_outer_fields(p, step), step, t)
reset_inner(p, new_total, t) == reset_inner_update(reset_inner_fields(p, t), new_total)
advance_inner(p, step, total, t) ==
    advance_inner_update(advance_inner_fields(p, step), step, total, t)

\* a clock that counts repaints instead of reading perf_counter(): each
\* refresh adds a second to what is stored
refresh_time_displays_CountsRepaints(p, t) ==
    [p EXCEPT !.outer_task.time_display = << @[1], @[2], @[3] + 1 >>,
              !.inner_task.time_display = << @[1], @[2], @[3] + 1 >>]

\* a refresh that also brings the bar into line with the manager's own step
\* field: it writes more than the two clocks
refresh_time_displays_Resync(p, t) ==
    [p EXCEPT !.outer_task.time_display = format_time(t - p.outer_start_time),
              !.inner_task.time_display = format_time(t - p.inner_start_time),
              !.outer_task.completed = p.current_outer_step]

\* _refresh_time_displays
refresh_time_displays(p, t) ==
    LET p1 == IF p.outer_start_time > 0
              THEN [p EXCEPT !.outer_task.time_display =
                                 format_time(t - p.outer_start_time)]
              ELSE p
    IN IF p1.inner_start_time > 0
       THEN [p1 EXCEPT !.inner_task.time_display =
                           format_time(t - p1.inner_start_time)]
       ELSE p1

\* the view cut from the wrong end: self._messages[:10]
RecentMessages_Head(msgs) ==
    IF Len(msgs) = 0 THEN << Msg("Waiting for tasks...", 0, 0, 0) >>
    ELSE IF Len(msgs) <= 10 THEN msgs
    ELSE SubSeq(msgs, 1, 10)

\* self._messages[-10:] if self._messages else ["Waiting for tasks..."]
Placeholder == Msg("Waiting for tasks...", 0, 0, 0)
RecentMessages(msgs) ==
    IF Len(msgs) = 0 THEN << Placeholder >>
    ELSE IF Len(msgs) <= ViewLen THEN msgs
    ELSE SubSeq(msgs, Len(msgs) - ViewLen + 1, Len(msgs))

\* _create_layout: what one repaint reads and puts on the terminal: both
\* bars and the log view, next to the manager's own fields as they are at
\* the moment of the read
create_layout(p) ==
    [outer |-> p.outer_task, inner |-> p.inner_task,
     log |-> RecentMessages(p.messages),
     current_outer_step |-> p.current_outer_step,
     inner_completed_steps |-> p.inner_completed_steps,
     inner_start_time |-> p.inner_start_time]

\* total_inner_steps = config.middle_iterations * config.inner_iterations
TotalInnerSteps(c) == c.middle_iterations * c.inner_iterations

VARIABLES
    args,        \* the command line values handed to `run`
    phase,       \* where `run` is
    config,      \* the TaskConfig, NoConfig until constructed
    stats,       \* the TaskStats
    pm,          \* the ProgressManager
    live,        \* the Live display: "Stopped" or "Running"
    liveStarts,  \* how many times Live.__enter__ ran
    pc,          \* where the Executor coroutine is
    outer_idx,   \* outer_loop's i
    middle_idx,  \* middle_loop's j
    inner_idx,   \* inner_loop's i
    completed,   \* inner_loop's completed
    cumulative_inner, \* middle_loop's cumulative_inner
    now,         \* perf_counter()
    interrupted, \* whether the user's interrupt has been delivered
    dpc,         \* where the refresh thread is
    renders      \* history: how many repaints have refreshed the manager
                 \* since a call of the Executor last changed it (2: two or more)

vars == << args, phase, config, stats, pm, live, liveStarts, pc, outer_idx,
           middle_idx, inner_idx, completed, cumulative_inner, now, interrupted,
           dpc, renders >>

execVars == << pc, outer_idx, middle_idx, inner_idx, completed, cumulative_inner >>
cliVars == << args, phase, config, live, liveStarts, interrupted >>
driverVars == << dpc, renders >>

Init ==
    /\ args \in [outer_iterations : OuterInputs, middle_iterations : MiddleInputs,
                 inner_iterations : InnerInputs,
                 short_circuit_probability : ProbInputs]
    /\ phase = "start"
    /\ config = NoConfig
    /\ stats = NewStats
    /\ pm = NewProgress(0, 0)
    /\ live = "Stopped"
    /\ liveStarts = 0
    /\ pc = "not_started"
    /\ outer_idx = 0
    /\ middle_idx = 0
    /\ inner_idx = 0
    /\ completed = 0
    /\ cumulative_inner = 0
    /\ now = 1
    /\ interrupted = FALSE
    /\ dpc = "off"
    /\ renders = 0

\* ------------------------------------------------------------ cli.py: run

\* An option is refused: by typer (BadParameter, exit code 2) before the body
\* of run, or else by TaskConfig(...) raising ValueError ("Configuration
\* error", exit code 1)
ConfigError ==
    /\ phase = "start"
    /\ ~(OptionsAccepted(args) /\ ValidConfig(args))
    /\ phase' = IF ~OptionsAccepted(args) THEN "exit_2" ELSE "exit_1"
    /\ UNCHANGED << args, config, stats, pm, live, liveStarts, interrupted,
                    execVars, now, driverVars >>

\* TaskConfig(...) succeeds; stats = TaskStats()
Configure ==
    /\ phase = "start"
    /\ OptionsAccepted(args)
    /\ ValidConfig(args)
    /\ config' = args
    /\ stats' = NewStats
    /\ phase' = "configured"
    /\ UNCHANGED << args, pm, live, liveStarts, interrupted, execVars, now,
                    driverVars >>

\* async with ProgressManager(...) as progress: __aenter__ starts the Live
\* display (and with it the refresh thread); run_tasks is about to begin
EnterLive ==
    /\ phase = "configured"
    /\ pm' = EnterProgress(NewProgress(args.outer_iterations,
                                       args.middle_iterations * args.inner_iterations),
                           now)
    /\ live' = "Running"
    /\ liveStarts' = liveStarts + 1
    /\ dpc' = "waiting"
    /\ renders' = 0
    /\ pc' = "run_tasks"
    /\ phase' = "executing"
    /\ UNCHANGED << args, config, stats, interrupted, outer_idx, middle_idx,
                    inner_idx, completed, cumulative_inner, now >>

\* __aexit__ after run_tasks returned: Live.__exit__ waits for a repaint in
\* progress, stops the refresh thread and paints a last frame; run goes on
\* to the summary and the report
ExitLiveCompleted ==
    /\ phase = "executing"
    /\ pc = "returned"
    /\ dpc = "waiting"
    /\ pm' = refresh_time_displays(pm, now)
    /\ live' = "Stopped"
    /\ dpc' = "off"
    /\ renders' = 0
    /\ phase' = "completed"
    /\ UNCHANGED << args, config, stats, liveStarts, interrupted, execVars, now >>

\* mutant: no `async with`: the cancellation leaves run without __aexit__
ExitLiveCancelled_NoStop ==
    /\ phase = "executing"
    /\ pc = "cancelled"
    /\ phase' = "exit_130"
    /\ UNCHANGED << args, config, stats, pm, live, liveStarts, interrupted,
                    execVars, now, driverVars >>

\* mutant: no `except KeyboardInterrupt`: run goes on to the summary
ExitLiveCancelled_ReportsSuccess ==
    /\ phase = "executing"
    /\ pc = "cancelled"
    /\ dpc = "waiting"
    /\ pm' = refresh_time_displays(pm, now)
    /\ live' = "Stopped"
    /\ dpc' = "off"
    /\ renders' = 0
    /\ phase' = "completed"
    /\ UNCHANGED << args, config, stats, liveStarts, interrupted, execVars, now >>

\* __aexit__ while the cancellation unwinds; asyncio.run raises
\* KeyboardInterrupt, run prints "Execution cancelled" and exits with 130
ExitLiveCancelled ==
    /\ phase = "executing"
    /\ pc = "cancelled"
    /\ dpc = "waiting"
    /\ pm' = refresh_time_displays(pm, now)
    /\ live' = "Stopped"
    /\ dpc' = "off"
    /\ renders' = 0
    /\ phase' = "exit_130"
    /\ UNCHANGED << args, config, stats, liveStarts, interrupted, execVars, now >>

\* --------------------------------------------------------- tasks.py

\* mutant: the comparison is turned round, `random.random() > probability`
ShortCircuitFires_Inverted(idx, draw, prob) == idx > 0 /\ draw >= prob

\* mutant: the comparison admits equality, `random.random() <= probability`
ShortCircuitFires_Inclusive(idx, draw, prob) == idx > 0 /\ draw <= prob

\* mutant: the `i > 0` guard is missing
ShortCircuitFires_FromZero(idx, draw, prob) == draw < prob

\* `random.random() < config.short_circuit_probability`, guarded by i > 0
ShortCircuitFires(idx, draw, prob) == idx > 0 /\ draw < prob

\* mutant: off by one, `completed = i`
CompletedAfter_OffByOne(idx) == idx

\* mutant: off by one the other way, `completed = i + 2`
CompletedAfter_TooFar(idx) == idx + 2

\* `completed = i + 1`
CompletedAfter(idx) == idx + 1

\* `completed % 5 == 0 or completed == config.inner_iterations`
ProgressLineDue(done, inner_iterations) ==
    done % 5 = 0 \/ done = inner_iterations

\* mutant: the CancelledError is swallowed where it is raised and the pause
\* counts as returned
OnCancel_Swallowed(at) == at

\* where a CancelledError raised at the suspension point `at` takes the
\* coroutine: no loop level catches it
OnCancel(at) == "cancelled"

\* run_tasks, lines 139-141
RunTasksStart ==
    /\ pc = "run_tasks"
    /\ stats' = StatsAddMessage(
                    StatsAddMessage(stats, Msg("TaskFlow execution initialized", 0, 0, 0)),
                    Msg("Configuration:", config.outer_iterations,
                        config.middle_iterations, config.inner_iterations))
    /\ pc' = "outer_loop"
    /\ UNCHANGED << cliVars, pm, outer_idx, middle_idx, inner_idx, completed,
                    cumulative_inner, now, driverVars >>

\* outer_loop, lines 114-115
OuterLoopStart ==
    /\ pc = "outer_loop"
    /\ pm' = add_message(pm, Msg("Starting outer loop execution", 0, 0, 0))
    /\ stats' = StatsAddMessage(stats, Msg("Execution started at", now, 0, 0))
    /\ outer_idx' = 0
    /\ pc' = "outer_head"
    /\ renders' = IF pm' = pm THEN renders ELSE 0
    /\ UNCHANGED << cliVars, middle_idx, inner_idx, completed, cumulative_inner,
                    now, dpc >>

\* outer_loop, lines 117-121: one more iteration
OuterIterBegin ==
    /\ pc = "outer_head"
    /\ outer_idx < config.outer_iterations
    /\ pm' = add_message(pm, Msg("Outer iteration", outer_idx + 1,
                                 config.outer_iterations, 0))
    /\ stats' = StatsAddMessage(stats, Msg("Outer iteration started", outer_idx + 1, 0, 0))
    /\ pc' = "middle_loop"
    /\ renders' = IF pm' = pm THEN renders ELSE 0
    /\ UNCHANGED << cliVars, outer_idx, middle_idx, inner_idx, completed,
                    cumulative_inner, now, dpc >>

\* outer_loop, line 117: range exhausted
OuterLoopExit ==
    /\ pc = "outer_head"
    /\ outer_idx >= config.outer_iterations
    /\ pc' = "complete_outer"
    /\ UNCHANGED << cliVars, stats, pm, outer_idx, middle_idx, inner_idx,
                    completed, cumulative_inner, now, driverVars >>

\* middle_loop, line 70
MiddleLoopStart ==
    /\ pc = "middle_loop"
    /\ pm' = add_message(pm, Msg("Starting middle loop", outer_idx, 0, 0))
    /\ pc' = "reset_inner_fields"
    /\ renders' = IF pm' = pm THEN renders ELSE 0
    /\ UNCHANGED << cliVars, stats, outer_idx, middle_idx, inner_idx, completed,
                    cumulative_inner, now, dpc >>

\* middle_loop line 75 -> reset_inner, lines 193-194
ResetInnerFields ==
    /\ pc = "reset_inner_fields"
    /\ pm' = reset_inner_fields(pm, now)
    /\ pc' = "reset_inner_update"
    /\ renders' = IF pm' = pm THEN renders ELSE 0
    /\ UNCHANGED << cliVars, stats, outer_idx, middle_idx, inner_idx, completed,
                    cumulative_inner, now, dpc >>

\* reset_inner, lines 195-201; middle_loop line 77
ResetInnerUpdate ==
    /\ pc = "reset_inner_update"
    /\ pm' = reset_inner_update(pm, TotalInnerSteps(config))
    /\ cumulative_inner' = 0
    /\ middle_idx' = 0
    /\ pc' = "middle_head"
    /\ renders' = IF pm' = pm THEN renders ELSE 0
    /\ UNCHANGED << cliVars, stats, outer_idx, inner_idx, completed, now,
                    dpc >>

\* middle_loop lines 79-83, inner_loop lines 25-29
MiddleIterBegin ==
    /\ pc = "middle_head"
    /\ middle_idx < config.middle_iterations
    /\ pm' = add_message(
                 add_message(pm, Msg("Middle iteration", middle_idx + 1,
                                     config.middle_iterations, outer_idx)),
                 Msg("Starting inner loop", outer_idx, middle_idx, 0))
    /\ completed' = 0
    /\ inner_idx' = 0
    /\ pc' = "inner_head"
    /\ renders' = IF pm' = pm THEN renders ELSE 0
    /\ UNCHANGED << cliVars, stats, outer_idx, middle_idx, cumulative_inner, now,
                    dpc >>

\* middle_loop, line 79: range exhausted
MiddleLoopExit ==
    /\ pc = "middle_head"
    /\ middle_idx >= config.middle_iterations
    /\ pc' = "complete_inner"
    /\ UNCHANGED << cliVars, stats, pm, outer_idx, middle_idx, inner_idx,
                    completed, cumulative_inner, now, driverVars >>

\* mutant: the step is counted before the draw, so a step cut short is
\* counted as done (line 48 moved above the `if` of line 32)
ShortCircuit_CountsStep ==
    /\ pc = "inner_head"
    /\ inner_idx < config.inner_iterations
    /\ \E draw \in RandomDraws :
           ShortCircuitFires(inner_idx, draw, config.short_circuit_probability)
    /\ pm' = add_message(pm, Msg("Short-circuit", inner_idx, outer_idx, middle_idx))
    /\ stats' = StatsAddMessage(
                    [stats EXCEPT !.short_circuit_count = @ + 1,
                                  !.total_inner_iterations = @ + 1],
                    Msg("Short-circuit at", outer_idx, middle_idx, inner_idx))
    /\ pc' = "inner_return"
    /\ renders' = IF pm' = pm THEN renders ELSE 0
    /\ UNCHANGED << cliVars, outer_idx, middle_idx, inner_idx, completed,
                    cumulative_inner, now, dpc >>

\* inner_loop, lines 32-41: the draw is below the probability, break
ShortCircuit ==
    /\ pc = "inner_head"
    /\ inner_idx < config.inner_iterations
    /\ \E draw \in RandomDraws :
           ShortCircuitFires(inner_idx, draw, config.short_circuit_probability)
    /\ pm' = add_message(pm, Msg("Short-circuit", inner_idx, outer_idx, middle_idx))
    /\ stats' = StatsAddMessage(
                    [stats EXCEPT !.short_circuit_count = @ + 1],
                    Msg("Short-circuit at", outer_idx, middle_idx, inner_idx))
    /\ pc' = "inner_return"
    /\ renders' = IF pm' = pm THEN renders ELSE 0
    /\ UNCHANGED << cliVars, outer_idx, middle_idx, inner_idx, completed,
                    cumulative_inner, now, dpc >>

\* inner_loop, lines 32 and 44-45: no short-circuit, start the work pause
BeginWork ==
    /\ pc = "inner_head"
    /\ inner_idx < config.inner_iterations
    /\ \E draw \in RandomDraws :
           ~ShortCircuitFires(inner_idx, draw, config.short_circuit_probability)
    /\ pc' = "work_pause"
    /\ UNCHANGED << cliVars, stats, pm, outer_idx, middle_idx, inner_idx,
                    completed, cumulative_inner, now, driverVars >>

\* inner_loop, lines 47-54: the pause returned
WorkPauseReturn ==
    /\ pc = "work_pause"
    /\ completed' = CompletedAfter(inner_idx)
    /\ stats' = [stats EXCEPT !.total_inner_iterations = @ + 1]
    /\ pm' = IF ProgressLineDue(completed', config.inner_iterations)
             THEN add_message(pm, Msg("Inner progress:", completed',
                                      config.inner_iterations, outer_idx))
             ELSE pm
    /\ inner_idx' = inner_idx + 1
    /\ pc' = "inner_head"
    /\ renders' = IF pm' = pm THEN renders ELSE 0
    /\ UNCHANGED << cliVars, outer_idx, middle_idx, cumulative_inner, now,
                    dpc >>

\* inner_loop, line 30: range exhausted
InnerLoopExit ==
    /\ pc = "inner_head"
    /\ inner_idx >= config.inner_iterations
    /\ pc' = "inner_return"
    /\ UNCHANGED << cliVars, stats, pm, outer_idx, middle_idx, inner_idx,
                    completed, cumulative_inner, now, driverVars >>

\* mutant: a short-circuited inner loop is not counted as a middle iteration
InnerReturn_SkipsShort ==
    /\ pc = "inner_return"
    /\ cumulative_inner' = cumulative_inner + completed
    /\ stats' = IF completed = config.inner_iterations
                THEN [stats EXCEPT !.total_middle_iterations = @ + 1]
                ELSE stats
    /\ pc' = "advance_inner_fields"
    /\ UNCHANGED << cliVars, pm, outer_idx, middle_idx, inner_idx, completed,
                    now, driverVars >>

\* inner_loop line 56, middle_loop lines 86-88
InnerReturn ==
    /\ pc = "inner_return"
    /\ cumulative_inner' = cumulative_inner + completed
    /\ stats' = [stats EXCEPT !.total_middle_iterations = @ + 1]
    /\ pc' = "advance_inner_fields"
    /\ UNCHANGED << cliVars, pm, outer_idx, middle_idx, inner_idx, completed,
                    now, driverVars >>

\* middle_loop line 91 -> advance_inner, line 206
AdvanceInnerFields ==
    /\ pc = "advance_inner_fields"
    /\ pm' = advance_inner_fields(pm, cumulative_inner)
    /\ pc' = "advance_inner_update"
    /\ renders' = IF pm' = pm THEN renders ELSE 0
    /\ UNCHANGED << cliVars, stats, outer_idx, middle_idx, inner_idx, completed,
                    cumulative_inner, now, dpc >>

\* mutant: no pause after the last middle iteration,
\* `if j < config.middle_iterations - 1: await anyio.sleep(...)`
AdvanceInnerUpdate_SkipsLastPause ==
    /\ pc = "advance_inner_update"
    /\ pm' = advance_inner_update(pm, cumulative_inner, TotalInnerSteps(config), now)
    /\ pc' = IF middle_idx + 1 < config.middle_iterations
             THEN "middle_pause" ELSE "middle_head"
    /\ middle_idx' = IF middle_idx + 1 < config.middle_iterations
                     THEN middle_idx ELSE middle_idx + 1
    /\ renders' = IF pm' = pm THEN renders ELSE 0
    /\ UNCHANGED << cliVars, stats, outer_idx, inner_idx, completed,
                    cumulative_inner, now, dpc >>

\* advance_inner, lines 207-214; middle_loop line 94 starts the pause
AdvanceInnerUpdate ==
    /\ pc = "advance_inner_update"
    /\ pm' = advance_inner_update(pm, cumulative_inner, TotalInnerSteps(config), now)
    /\ pc' = "middle_pause"
    /\ renders' = IF pm' = pm THEN renders ELSE 0
    /\ UNCHANGED << cliVars, stats, outer_idx, middle_idx, inner_idx, completed,
                    cumulative_inner, now, dpc >>

\* middle_loop, line 94: the pause returned
MiddlePauseReturn ==
    /\ pc = "middle_pause"
    /\ middle_idx' = middle_idx + 1
    /\ pc' = "middle_head"
    /\ UNCHANGED << cliVars, stats, pm, outer_idx, inner_idx, completed,
                    cumulative_inner, now, driverVars >>

\* middle_loop, line 97
CompleteInner ==
    /\ pc = "complete_inner"
    /\ pm' = complete_inner(pm, cumulative_inner, now)
    /\ pc' = "middle_return"
    /\ renders' = IF pm' = pm THEN renders ELSE 0
    /\ UNCHANGED << cliVars, stats, outer_idx, middle_idx, inner_idx, completed,
                    cumulative_inner, now, dpc >>

\* mutant: `stats.total_outer_iterations = i` instead of `+= 1`
MiddleReturn_SetsIndex ==
    /\ pc = "middle_return"
    /\ pm' = add_message(pm, Msg("Completed middle loop", outer_idx,
                                 cumulative_inner, TotalInnerSteps(config)))
    /\ stats' = [stats EXCEPT !.total_outer_iterations = outer_idx]
    /\ pc' = "advance_outer_fields"
    /\ renders' = IF pm' = pm THEN renders ELSE 0
    /\ UNCHANGED << cliVars, outer_idx, middle_idx, inner_idx, completed,
                    cumulative_inner, now, dpc >>

\* middle_loop lines 98-101, outer_loop line 126
MiddleReturn ==
    /\ pc = "middle_return"
    /\ pm' = add_message(pm, Msg("Completed middle loop", outer_idx,
                                 cumulative_inner, TotalInnerSteps(config)))
    /\ stats' = [stats EXCEPT !.total_outer_iterations = @ + 1]
    /\ pc' = "advance_outer_fields"
    /\ renders' = IF pm' = pm THEN renders ELSE 0
    /\ UNCHANGED << cliVars, outer_idx, middle_idx, inner_idx, completed,
                    cumulative_inner, now, dpc >>

\* outer_loop line 129 -> advance_outer, line 181
AdvanceOuterFields ==
    /\ pc = "advance_outer_fields"
    /\ pm' = advance_outer_fields(pm, outer_idx + 1)
    /\ pc' = "advance_outer_update"
    /\ renders' = IF pm' = pm THEN renders ELSE 0
    /\ UNCHANGED << cliVars, stats, outer_idx, middle_idx, inner_idx, completed,
                    cumulative_inner, now, dpc >>

\* advance_outer, lines 182-188; next outer iteration
AdvanceOuterUpdate ==
    /\ pc = "advance_outer_update"
    /\ pm' = advance_outer_update(pm, outer_idx + 1, now)
    /\ outer_idx' = outer_idx + 1
    /\ pc' = "outer_head"
    /\ renders' = IF pm' = pm THEN renders ELSE 0
    /\ UNCHANGED << cliVars, stats, middle_idx, inner_idx, completed,
                    cumulative_inner, now, dpc >>

\* outer_loop, line 132
CompleteOuter ==
    /\ pc = "complete_outer"
    /\ pm' = complete_outer(pm, now)
    /\ pc' = "outer_return"
    /\ renders' = IF pm' = pm THEN renders ELSE 0
    /\ UNCHANGED << cliVars, stats, outer_idx, middle_idx, inner_idx, completed,
                    cumulative_inner, now, dpc >>

\* outer_loop, lines 133-134
OuterReturn ==
    /\ pc = "outer_return"
    /\ pm' = add_message(pm, Msg("All loops completed successfully!", 0, 0, 0))
    /\ stats' = StatsAddMessage(stats, Msg("Execution completed at", now, 0, 0))
    /\ pc' = "run_tasks_end"
    /\ renders' = IF pm' = pm THEN renders ELSE 0
    /\ UNCHANGED << cliVars, outer_idx, middle_idx, inner_idx, completed,
                    cumulative_inner, now, dpc >>

\* run_tasks, lines 145-146
RunTasksEnd ==
    /\ pc = "run_tasks_end"
    /\ stats' = StatsAddMessage(
                    [stats EXCEPT !.total_elapsed_seconds = now - pm.outer_start_time],
                    Msg("Total elapsed time:", now - pm.outer_start_time, 0, 0))
    /\ pc' = "returned"
    /\ UNCHANGED << cliVars, pm, outer_idx, middle_idx, inner_idx, completed,
                    cumulative_inner, now, driverVars >>

\* ------------------------------------------------------- cancellation
\* The user's interrupt reaches the coroutine as a CancelledError raised at
\* the pause it is suspended in.

\* cancelled in `await anyio.sleep(sleep_time)`, inner_loop line 45
CancelWorkPause ==
    /\ pc = "work_pause"
    /\ ~interrupted
    /\ interrupted' = TRUE
    /\ pc' = OnCancel("work_pause")
    /\ UNCHANGED << args, phase, config, live, liveStarts, stats, pm, outer_idx,
                    middle_idx, inner_idx, completed, cumulative_inner, now,
                    driverVars >>

\* cancelled in `await anyio.sleep(config.sleep_min)`, middle_loop line 94
CancelMiddlePause ==
    /\ pc = "middle_pause"
    /\ ~interrupted
    /\ interrupted' = TRUE
    /\ pc' = OnCancel("middle_pause")
    /\ UNCHANGED << args, phase, config, live, liveStarts, stats, pm, outer_idx,
                    middle_idx, inner_idx, completed, cumulative_inner, now,
                    driverVars >>

\* ------------------------------------------- the Live refresh thread
\* One repaint is DynamicLayout.__rich_console__: line 34, then line 35.

\* self._progress_manager._refresh_time_displays()
DriverRefresh ==
    /\ live = "Running"
    /\ dpc = "waiting"
    /\ pm' = refresh_time_displays(pm, now)
    /\ dpc' = "refreshed"
    /\ renders' = IF renders < 2 THEN renders + 1 ELSE 2
    /\ UNCHANGED << cliVars, stats, execVars, now >>

\* yield self._progress_manager._create_layout(): the frame that reaches the
\* terminal is create_layout(pm) as pm is in this step
DriverPaint ==
    /\ live = "Running"
    /\ dpc = "refreshed"
    /\ dpc' = "waiting"
    /\ UNCHANGED << cliVars, stats, pm, execVars, now, renders >>

\* perf_counter() reaches the next whole second.  Wall-clock time passes in
\* the two pauses (anyio.sleep, tasks.py lines 45 and 94); the statements
\* between two pauses run within one reading of the clock.
Tick ==
    /\ phase = "executing"
    /\ pc \in {"work_pause", "middle_pause"}
    /\ now < MaxTime
    /\ now' = now + 1
    /\ UNCHANGED << cliVars, stats, pm, execVars, driverVars >>

Executor ==
    \/ RunTasksStart \/ OuterLoopStart \/ OuterIterBegin \/ OuterLoopExit
    \/ MiddleLoopStart \/ ResetInnerFields \/ ResetInnerUpdate
    \/ MiddleIterBegin \/ MiddleLoopExit
    \/ ShortCircuit \/ BeginWork \/ WorkPauseReturn \/ InnerLoopExit
    \/ InnerReturn \/ AdvanceInnerFields \/ AdvanceInnerUpdate
    \/ MiddlePauseReturn \/ CompleteInner \/ MiddleReturn
    \/ AdvanceOuterFields \/ AdvanceOuterUpdate
    \/ CompleteOuter \/ OuterReturn \/ RunTasksEnd

Next ==
    \/ ConfigError \/ Configure \/ EnterLive
    \/ ExitLiveCompleted \/ ExitLiveCancelled
    \/ RunTasksStart \/ OuterLoopStart \/ OuterIterBegin \/ OuterLoopExit
    \/ MiddleLoopStart \/ ResetInnerFields \/ ResetInnerUpdate
    \/ MiddleIterBegin \/ MiddleLoopExit
    \/ ShortCircuit \/ BeginWork \/ WorkPauseReturn \/ InnerLoopExit
    \/ InnerReturn \/ AdvanceInnerFields \/ AdvanceInnerUpdate
    \/ MiddlePauseReturn \/ CompleteInner \/ MiddleReturn
    \/ AdvanceOuterFields \/ AdvanceOuterUpdate
    \/ CompleteOuter \/ OuterReturn \/ RunTasksEnd
    \/ CancelWorkPause \/ CancelMiddlePause
    \/ DriverRefresh \/ DriverPaint \/ Tick

Spec == Init /\ [][Next]_vars

TypeOK ==
    /\ phase \in {"start", "exit_1", "exit_2", "configured", "executing",
                  "completed", "exit_130", "setters", "construct",
                  "constructed", "value_error"}
    /\ live \in {"Stopped", "Running"}
    /\ dpc \in {"off", "waiting", "refreshed"}
    /\ now \in 1 .. MaxTime
    /\ interrupted \in BOOLEAN
    /\ renders \in 0 .. 2

\* Fairness: the event loop resumes a coroutine whose pause has ended, the
\* refresh thread finishes a repaint it began, and Live.__exit__ gets the
\* display between two repaints (the thread waits 100 ms between them).
FairSpec ==
    /\ Spec
    /\ WF_vars(Executor)
    /\ WF_vars(Configure \/ ConfigError \/ EnterLive)
    /\ WF_vars(DriverPaint)
    /\ SF_vars(ExitLiveCompleted)
    /\ SF_vars(ExitLiveCancelled)

\* ------------------------------------------- runs long enough for the log
\* The same program, started with the options of a longer run: one more
\* outer and one more middle iteration than Init allows, and the two
\* probabilities under which the run does not depend on the draws (0.0 and
\* 1.0), so that the activity log outgrows its view of ten lines and the
\* inner bar is reset more than once.
LongRunInit ==
    /\ args \in [outer_iterations : -1 .. MaxOuter + 1,
                 middle_iterations : 0 .. MaxMiddle + 1,
                 inner_iterations : 1 .. MaxInner + 1,
                 short_circuit_probability : {0, 10}]
    /\ phase = "start"
    /\ config = NoConfig
    /\ stats = NewStats
    /\ pm = NewProgress(0, 0)
    /\ live = "Stopped"
    /\ liveStarts = 0
    /\ pc = "not_started"
    /\ outer_idx = 0
    /\ middle_idx = 0
    /\ inner_idx = 0
    /\ completed = 0
    /\ cumulative_inner = 0
    /\ now = 1
    /\ interrupted = FALSE
    /\ dpc = "off"
    /\ renders = 0

LongRunSpec == LongRunInit /\ [][Next]_vars

\* ------------------------------------------- the setters called directly
\* ProgressManager is a public class: any caller may enter it and call its
\* setters with arguments of its own choosing.  SetterSpec is that caller.

SetterInit ==
    /\ args = NoConfig
    /\ phase = "setters"
    /\ config = NoConfig
    /\ stats = NewStats
    /\ \E outer_total \in 0 .. MaxArg, inner_total \in 0 .. MaxArg :
           pm = EnterProgress(NewProgress(outer_total, inner_total), 1)
    /\ live = "Running"
    /\ liveStarts = 1
    /\ pc = "not_started"
    /\ outer_idx = 0
    /\ middle_idx = 0
    /\ inner_idx = 0
    /\ completed = 0
    /\ cumulative_inner = 0
    /\ now = 1
    /\ interrupted = FALSE
    /\ dpc = "waiting"
    /\ renders = 0

\* progress.advance_outer(step)
CallAdvanceOuter ==
    /\ \E step \in 0 .. MaxArg : pm' = advance_outer(pm, step, now)
    /\ renders' = IF pm' = pm THEN renders ELSE 0
    /\ UNCHANGED << cliVars, stats, execVars, now, dpc >>

\* progress.reset_inner(new_total)
CallResetInner ==
    /\ \E new_total \in 0 .. MaxArg : pm' = reset_inner(pm, new_total, now)
    /\ renders' = IF pm' = pm THEN renders ELSE 0
    /\ UNCHANGED << cliVars, stats, execVars, now, dpc >>

\* progress.advance_inner(step, total)
CallAdvanceInner ==
    /\ \E step \in 0 .. MaxArg, total \in 0 .. MaxArg :
           pm' = advance_inner(pm, step, total, now)
    /\ renders' = IF pm' = pm THEN renders ELSE 0
    /\ UNCHANGED << cliVars, stats, execVars, now, dpc >>

\* progress.complete_outer()
CallCompleteOuter ==
    /\ pm' = complete_outer(pm, now)
    /\ renders' = IF pm' = pm THEN renders ELSE 0
    /\ UNCHANGED << cliVars, stats, execVars, now, dpc >>

\* progress.complete_inner(total)
CallCompleteInner ==
    /\ \E total \in 0 .. MaxArg : pm' = complete_inner(pm, total, now)
    /\ renders' = IF pm' = pm THEN renders ELSE 0
    /\ UNCHANGED << cliVars, stats, execVars, now, dpc >>

SetterNext ==
    \/ CallAdvanceOuter \/ CallResetInner \/ CallAdvanceInner
    \/ CallCompleteOuter \/ CallCompleteInner

SetterSpec == SetterInit /\ [][SetterNext]_vars

\* ------------------------------------------- TaskConfig built directly
\* TaskConfig is a public dataclass: a caller other than run builds it from
\* values no option parser has looked at.  ConstructSpec is that caller.

ConstructInit ==
    /\ args \in [outer_iterations : OuterInputs, middle_iterations : MiddleInputs,
                 inner_iterations : InnerInputs,
                 short_circuit_probability : ProbInputs]
    /\ phase = "construct"
    /\ config = NoConfig
    /\ stats = NewStats
    /\ pm = NewProgress(0, 0)
    /\ live = "Stopped"
    /\ liveStarts = 0
    /\ pc = "not_started"
    /\ outer_idx = 0
    /\ middle_idx = 0
    /\ inner_idx = 0
    /\ completed = 0
    /\ cumulative_inner = 0
    /\ now = 1
    /\ interrupted = FALSE
    /\ dpc = "off"
    /\ renders = 0

\* TaskConfig(...): __post_init__ passes, the frozen instance exists
TaskConfigOk ==
    /\ phase = "construct"
    /\ ValidConfig(args)
    /\ config' = args
    /\ phase' = "constructed"
    /\ UNCHANGED << args, stats, pm, live, liveStarts, interrupted, execVars,
                    now, driverVars >>

\* TaskConfig(...): __post_init__ raises ValueError
TaskConfigRaises ==
    /\ phase = "construct"
    /\ ~ValidConfig(args)
    /\ phase' = "value_error"
    /\ UNCHANGED << args, config, stats, pm, live, liveStarts, interrupted,
                    execVars, now, driverVars >>

ConstructNext == TaskConfigOk \/ TaskConfigRaises

ConstructSpec == ConstructInit /\ [][ConstructNext]_vars

\* ------------------------------------------------------------ helpers
Last(s) == s[Len(s)]
KindCount(msgs, kind) == Cardinality({n \in 1 .. Len(msgs) : msgs[n].kind = kind})
Constructed == config # NoConfig

\* =============================================================== claims

\* A repaint happens in this step: the refresh thread's paint, or the last
\* paint of Live.__exit__.
Repaint ==
    \/ dpc = "refreshed" /\ dpc' = "waiting"
    \/ live = "Running" /\ live' = "Stopped"

\* A frame shows whole updates only: each setter leaves the manager's own
\* step field equal to the bar's completed value, so a frame in which they
\* differ was read between the two halves of a setter.
FrameWhole(f) ==
    /\ f.inner_completed_steps = f.inner.completed
    /\ f.current_outer_step = f.outer.completed

CountersInRange ==
    /\ stats.total_outer_iterations = outer_idx
    /\ stats.total_outer_iterations <= config.outer_iterations
    /\ stats.total_middle_iterations
           <= config.outer_iterations * config.middle_iterations
    /\ stats.total_inner_iterations
           <= config.outer_iterations * config.middle_iterations
                  * config.inner_iterations
    /\ stats.short_circuit_count = KindCount(stats.messages, "Short-circuit at")

\* C2: once the cancellation has been raised in a pause, no further loop
\* iteration completes: the statistics (the four counters and the messages)
\* never change again, and they are the counts of the work done before it,
\* with total_outer <= outer_iterations.
C2_StatsFrozenAfterCancel ==
    /\ [][interrupted => stats' = stats]_vars
    /\ [](interrupted => CountersInRange)

C2_Witness ==
    /\ phase = "exit_130"
    /\ stats.total_middle_iterations = 1
    /\ stats.total_inner_iterations > 0
    /\ stats.total_outer_iterations < config.outer_iterations

\* ---------------------------------------------------------------- C3
RunEnded == phase \in {"exit_1", "exit_2", "completed", "exit_130"}

\* C3: the Live display goes Stopped -> Running -> Stopped: it is started
\* once, before the Executor begins; it is never started again; a run never
\* ends with it Running; and on every exit path it is eventually stopped.
C3_DriverLifecycle ==
    /\ [](liveStarts <= 1)
    /\ [](pc # "not_started" => liveStarts = 1)
    /\ [](live = "Running" => liveStarts = 1 /\ phase = "executing")
    /\ [](RunEnded => live = "Stopped")
    /\ [][live = "Stopped" /\ liveStarts = 1 => live' = "Stopped"]_vars
    /\ <>[](live = "Stopped")

C3_Witness == phase = "exit_130" /\ live = "Stopped" /\ liveStarts = 1

\* ---------------------------------------------------------------- C4
NoCompletionStep ==
    /\ pm.outer_task.status # CompleteLabel
    /\ KindCount(pm.messages, "All loops completed successfully!") = 0
    /\ KindCount(stats.messages, "Execution completed at") = 0
    /\ KindCount(stats.messages, "Total elapsed time:") = 0
    /\ stats.total_elapsed_seconds = NewStats.total_elapsed_seconds

\* C4: a cancelled run is never reported as completed: the cancellation is
\* caught at no loop level, the run ends with the cancelled outcome (exit
\* code 130), and none of the completion-only steps has run.
C4_CancelNotCompletion ==
    interrupted =>
        /\ pc = "cancelled"
        /\ phase \in {"executing", "exit_130"}
        /\ NoCompletionStep

C4_Witness ==
    /\ phase = "exit_130"
    /\ interrupted
    /\ stats.total_middle_iterations = config.outer_iterations * config.middle_iterations
    /\ stats.total_outer_iterations = 0

\* ---------------------------------------------------------------- C5
\* C5: after a run that completed without cancellation, total_outer equals
\* outer_iterations (also when outer_iterations = 0).
C5_TotalOuter ==
    phase = "completed" => stats.total_outer_iterations = config.outer_iterations

C5_Witness ==
    /\ phase = "completed"
    /\ config.outer_iterations = MaxOuter
    /\ stats.total_outer_iterations = MaxOuter

\* ---------------------------------------------------------------- C6
\* C6: after a run that completed without cancellation, total_middle equals
\* outer_iterations * middle_iterations, whatever short-circuits occurred.
C6_TotalMiddle ==
    phase = "completed" =>
        stats.total_middle_iterations
            = config.outer_iterations * config.middle_iterations

C6_Witness ==
    /\ phase = "completed"
    /\ stats.short_circuit_count > 0
    /\ stats.total_middle_iterations = MaxOuter * MaxMiddle

\* ---------------------------------------------------------------- C7
\* the inner loop that is returning broke out on a short-circuit: the break
\* is the only way to return right after the short-circuit line
ReturningShort == Last(pm.messages).kind = "Short-circuit"

\* C7: the count an inner loop returns is in 1..inner_iterations; it equals
\* inner_iterations exactly when no short-circuit fired in that loop, and a
\* short-circuit at step k returns k.
C7_InnerReturnCount ==
    pc = "inner_return" =>
        /\ completed >= 1
        /\ completed <= config.inner_iterations
        /\ (completed = config.inner_iterations) <=> ~ReturningShort
        /\ ReturningShort => completed = Last(pm.messages).a /\ completed = inner_idx

C7_Witness ==
    /\ pc = "inner_return"
    /\ ReturningShort
    /\ completed = 1
    /\ config.inner_iterations = MaxInner

\* ---------------------------------------------------------------- C8
ShortCircuitSteps ==
    {pm.messages[n].a : n \in {m \in 1 .. Len(pm.messages) :
                                   pm.messages[m].kind = "Short-circuit"}}
    \cup {stats.messages[n].c : n \in {m \in 1 .. Len(stats.messages) :
                                   stats.messages[m].kind = "Short-circuit at"}}

\* C8: no short-circuit happens at inner step 0: every recorded short-circuit
\* has k >= 1, and an inner loop at step 0 can only go on to its work pause.
C8_NoShortCircuitAtZero ==
    /\ [](\A step \in ShortCircuitSteps : step >= 1)
    /\ [][pc = "inner_head" /\ inner_idx = 0 /\ pc' # pc => pc' = "work_pause"]_vars

C8_Witness ==
    /\ 1 \in ShortCircuitSteps
    /\ stats.short_circuit_count = MaxMiddle

\* ---------------------------------------------------------------- C9
BarsWithinTotal ==
    /\ pm.outer_task.completed <= pm.outer_task.total
    /\ pm.inner_task.completed <= pm.inner_task.total

\* C9: the Executor never has more cumulative inner steps than
\* middle_iterations * inner_iterations, so it never calls advance_inner with
\* step > total, and both bars have completed <= total in every state.
C9_CompletedWithinTotal ==
    /\ BarsWithinTotal
    /\ Constructed => cumulative_inner <= TotalInnerSteps(config)

C9_Witness ==
    /\ pm.inner_task.status = CompleteLabel
    /\ pm.inner_task.completed = pm.inner_task.total
    /\ pm.inner_task.total > 0
    /\ pm.inner_task.total < TotalInnerSteps(config)
    /\ pm.outer_task.status = CompleteLabel

\* --------------------------------------------------------------- C10
\* C10: the setters themselves keep completed <= total on the inner bar: a
\* call advance_inner(step, total) with step > total leaves total = step, so
\* whatever the caller passes, the bar never holds completed > total.
C10_SetterKeepsWithinTotal == pm.inner_task.completed <= pm.inner_task.total

\* --------------------------------------------------------------- C11
\* A step of the repaint: the refresh thread's _refresh_time_displays or its
\* paint, or the last repaint made by Live.__exit__.
RepaintStep ==
    \/ dpc # "off" /\ dpc' # dpc
    \/ live = "Running" /\ live' = "Stopped"

\* The manager without the two stored clocks.
WithoutTimeDisplay(p) ==
    [p EXCEPT !.outer_task.time_display = << >>,
              !.inner_task.time_display = << >>]

\* C11 as the specification states it: a repaint is a pure read, it leaves
\* every field of both bars, the stored time display included, and the
\* activity log as they were.
C11_RepaintIsPureRead == [][RepaintStep => pm' = pm]_vars

\* C11, amended: a repaint writes nothing but the stored time display of
\* the two bars; completed, total, status, the start times, the manager's
\* step fields and the activity log are left as they were, and every change
\* to them is made in a step of the Executor (or by the construction of the
\* manager).
C11_RepaintWritesOnlyTimeDisplay ==
    [][/\ RepaintStep => WithoutTimeDisplay(pm') = WithoutTimeDisplay(pm)
       /\ WithoutTimeDisplay(pm') # WithoutTimeDisplay(pm) => pc' # pc]_vars

\* a repaint has written the outer bar's clock: no setter has touched the
\* outer bar yet, and its clock is no longer the 00:00:00 of __aenter__
C11_Witness ==
    /\ dpc = "refreshed"
    /\ pm.outer_task.status = Ratio(0, pm.outer_total)
    /\ pm.outer_task.time_display # format_time(0)

\* --------------------------------------------------------------- C12
\* view is the last min(ViewLen, n) of the n messages msgs, in their order,
\* or the one placeholder line when there is none
IsTrailingView(view, msgs) ==
    LET n == Len(msgs)
        k == IF n < ViewLen THEN n ELSE ViewLen
    IN IF n = 0
       THEN view = << Msg("Waiting for tasks...", 0, 0, 0) >>
       ELSE /\ Len(view) = k
            /\ \A j \in 1 .. k : view[j] = msgs[n - k + j]

\* the messages a step adds go to the end of the log, behind all earlier ones
AppendsAtEnd(old, new) ==
    /\ Len(new) >= Len(old)
    /\ SubSeq(new, 1, Len(old)) = old

\* C12: messages enter the activity log in the order of the add_message
\* calls, each at the end, and at every repaint the view shown is the last
\* min(10, n) of the n messages appended so far, in that order, or the
\* placeholder when n = 0.
C12_ViewIsLastTen ==
    [][/\ AppendsAtEnd(pm.messages, pm'.messages)
       /\ Repaint => IsTrailingView(create_layout(pm').log, pm'.messages)]_vars

\* a repaint is under way on a log that has outgrown the view
C12_Witness ==
    /\ dpc = "refreshed"
    /\ Len(pm.messages) > ViewLen
    /\ Len(create_layout(pm).log) = ViewLen

\* --------------------------------------------------------------- C13
\* a is found in b, in order
RECURSIVE IsSubsequence(_, _)
IsSubsequence(a, b) ==
    IF a = << >> THEN TRUE
    ELSE IF b = << >> THEN FALSE
    ELSE IF Head(a) = Head(b) THEN IsSubsequence(Tail(a), Tail(b))
    ELSE IsSubsequence(a, Tail(b))

\* C13 as the specification states it: every message passed to the
\* Renderer's add_message is present, in call order, in RunStats.messages.
C13_StatsHoldEveryMessage == IsSubsequence(pm.messages, stats.messages)

\* C13, amended: every message passed to the Renderer's add_message is kept,
\* in call order, in the Renderer's own store, also after it has left the
\* view of ten.  RunStats.messages is a second record, kept in call order as
\* well, of the messages passed to TaskStats.add_message: none of them is a
\* Renderer message, and the two records agree only in that each has one
\* line per outer iteration begun and one per short-circuit.
C13_BothRecordsKept ==
    /\ [][/\ AppendsAtEnd(pm.messages, pm'.messages)
          /\ AppendsAtEnd(stats.messages, stats'.messages)]_vars
    /\ [](/\ \A n \in 1 .. Len(pm.messages), k \in 1 .. Len(stats.messages) :
                 stats.messages[k] # pm.messages[n]
          /\ KindCount(stats.messages, "Outer iteration started")
                 = KindCount(pm.messages, "Outer iteration")
          /\ KindCount(stats.messages, "Short-circuit at")
                 = KindCount(pm.messages, "Short-circuit")
          /\ KindCount(pm.messages, "Short-circuit") = stats.short_circuit_count)

\* a finished run whose first message has long left the view and is still
\* the first of the store
C13_Witness ==
    /\ phase = "completed"
    /\ Len(pm.messages) > ViewLen
    /\ pm.messages[1] = Msg("Starting outer loop execution", 0, 0, 0)
    /\ Len(stats.messages) < Len(pm.messages)

\* --------------------------------------------------------------- C14
\* the policy bounds of a configuration: the three iteration counts within
\* LoopConfig, the probability within [0, 1]
WithinPolicy(c) ==
    /\ c.outer_iterations \in outer_min .. outer_max
    /\ c.middle_iterations \in middle_min .. middle_max
    /\ c.inner_iterations \in inner_min .. inner_max
    /\ c.short_circuit_probability \in 0 .. 10

\* C14: a configuration with an iteration count or a short-circuit
\* probability outside its policy bounds is rejected at construction: no
\* TaskConfig outside the bounds ever exists, and a rejected construction
\* leaves the statistics and the progress bars as they were.
C14_InvalidConfigRejected ==
    /\ config # NoConfig => WithinPolicy(config)
    /\ phase = "value_error" =>
           config = NoConfig /\ stats = NewStats /\ pm = NewProgress(0, 0)

\* --------------------------------------------------------------- C15
\* C15: with short_circuit_probability = 1.0 and inner_iterations >= 2 every
\* inner loop returns after exactly one step, cut short at step 1, with one
\* short-circuit recorded for it; after a full run total_inner and
\* short_circuit_count both equal outer_iterations * middle_iterations.
C15_AlwaysShortCircuits ==
    (config.short_circuit_probability = 10 /\ config.inner_iterations >= 2) =>
        /\ pc = "inner_return" =>
               /\ completed = 1
               /\ ReturningShort
               /\ stats.short_circuit_count = stats.total_middle_iterations + 1
               /\ stats.total_inner_iterations = stats.short_circuit_count
        /\ phase = "completed" =>
               /\ stats.total_inner_iterations
                      = config.outer_iterations * config.middle_iterations
               /\ stats.short_circuit_count
                      = config.outer_iterations * config.middle_iterations

C15_Witness ==
    /\ phase = "completed"
    /\ config.short_circuit_probability = 10
    /\ config.inner_iterations = MaxInner + 1
    /\ stats.short_circuit_count = (MaxOuter + 1) * (MaxMiddle + 1)
    /\ stats.total_inner_iterations = (MaxOuter + 1) * (MaxMiddle + 1)

\* --------------------------------------------------------------- C16
\* C16: with short_circuit_probability = 0.0 no short-circuit ever occurs,
\* every inner loop runs all its steps, and a full run ends with
\* short_circuit_count = 0, total_outer = outer, total_middle = outer *
\* middle and total_inner = outer * middle * inner.
C16_NeverShortCircuits ==
    config.short_circuit_probability = 0 =>
        /\ stats.short_circuit_count = 0
        /\ pc = "inner_return" => completed = config.inner_iterations
        /\ phase = "completed" =>
               /\ stats.total_outer_iterations = config.outer_iterations
               /\ stats.total_middle_iterations
                      = config.outer_iterations * config.middle_iterations
               /\ stats.total_inner_iterations
                      = config.outer_iterations * config.middle_iterations
                            * config.inner_iterations

\* the specification's own case, when the bounds are MaxOuter = MaxMiddle = 1
\* and MaxInner = 2: outer = 2, middle = 1, inner = 3 ends with 2, 2 and 6
C16_Witness ==
    /\ phase = "completed"
    /\ config.short_circuit_probability = 0
    /\ config.outer_iterations = MaxOuter + 1
    /\ config.middle_iterations = 1
    /\ config.inner_iterations = MaxInner + 1
    /\ stats.total_outer_iterations = MaxOuter + 1
    /\ stats.total_middle_iterations = MaxOuter + 1
    /\ stats.total_inner_iterations = (MaxOuter + 1) * (MaxInner + 1)
    /\ stats.short_circuit_count = 0

\* --------------------------------------------------------------- C17
\* C17: with inner_iterations = 1 the inner loop never short-circuits,
\* whatever the probability: short_circuit_count stays 0 and a full run ends
\* with total_inner = outer_iterations * middle_iterations.
C17_SingleStepNeverShortCircuits ==
    config.inner_iterations = 1 =>
        /\ stats.short_circuit_count = 0
        /\ pc = "inner_return" => completed = 1 /\ ~ReturningShort
        /\ phase = "completed" =>
               stats.total_inner_iterations
                   = config.outer_iterations * config.middle_iterations

C17_Witness ==
    /\ phase = "completed"
    /\ config.inner_iterations = 1
    /\ config.short_circuit_probability = 10
    /\ stats.short_circuit_count = 0
    /\ stats.total_inner_iterations = MaxOuter * MaxMiddle
    /\ stats.total_inner_iterations > 0

\* --------------------------------------------------------------- C18
\* A render begins: the refresh thread's _refresh_time_displays, or the last
\* render made by Live.__exit__.
RenderStep ==
    \/ dpc = "waiting" /\ dpc' = "refreshed"
    \/ live = "Running" /\ live' = "Stopped"

\* perf_counter() reads the same whole second as at the last render
ClockAsRendered ==
    pm.outer_task.time_display = format_time(now - pm.outer_start_time)

\* C18 as the specification states it: a render that follows another with no
\* change by the Executor in between shows the same frame and leaves the
\* manager as the first left it.
C18_RenderIdempotent ==
    [][RenderStep /\ renders >= 1 =>
           /\ pm' = pm
           /\ create_layout(pm') = create_layout(pm)]_vars

\* C18, amended: a render that follows another with no change by the
\* Executor in between, and at the same reading of the clock, shows the same
\* frame and leaves the manager as the first left it; when the clock has
\* moved on, frame and manager differ from the first in the two elapsed-time
\* displays and in nothing else.
C18_RenderIdempotentAtSameClock ==
    [][RenderStep /\ renders >= 1 =>
           /\ ClockAsRendered =>
                  pm' = pm /\ create_layout(pm') = create_layout(pm)
           /\ WithoutTimeDisplay(pm') = WithoutTimeDisplay(pm)
           /\ create_layout(WithoutTimeDisplay(pm'))
                  = create_layout(WithoutTimeDisplay(pm))]_vars

\* a second render has refreshed the manager after the first, nothing having
\* changed in between, and the clock shown is past 00:00:00
C18_Witness ==
    /\ renders = 2
    /\ dpc = "refreshed"
    /\ pm.outer_task.time_display # format_time(0)

\* --------------------------------------------------------------- C19
\* where middle_loop is before its reset_inner call has returned
BeforeReset == {"middle_loop", "reset_inner_fields", "reset_inner_update"}

\* where middle_loop is between its reset_inner call and its return: the
\* inner-loop steps, the advance_inner calls and complete_inner
AfterReset ==
    {"middle_head", "inner_head", "work_pause", "inner_return",
     "advance_inner_fields", "advance_inner_update", "middle_pause",
     "complete_inner", "middle_return"}

\* the reset_inner call returns in this step
ResetInnerReturns == pc = "reset_inner_update" /\ pc' = "middle_head"

\* C19: each outer iteration calls reset_inner exactly once, with new_total =
\* middle_iterations * inner_iterations, before any inner-loop step, any
\* advance_inner and the complete_inner of that iteration; the call leaves
\* the inner bar at completed = 0 of the new total and restarts the inner
\* timer, and nothing restarts it again or empties the bar within the
\* iteration.
C19_ResetInnerOncePerOuter ==
    /\ [][ResetInnerReturns =>
              /\ pm'.inner_task.completed = 0
              /\ pm'.inner_task.total
                     = config.middle_iterations * config.inner_iterations
              /\ pm'.inner_task.status = Ratio(0, pm'.inner_task.total)
              /\ pm'.inner_task.time_display = format_time(0)
              /\ pm'.inner_completed_steps = 0
              /\ pm'.inner_start_time = now]_vars
    /\ [][/\ pc' \in BeforeReset /\ pc \notin BeforeReset => pc = "outer_head"
          /\ pc \in AfterReset /\ pc' \in AfterReset =>
                 /\ pm'.inner_start_time = pm.inner_start_time
                 /\ pm'.inner_completed_steps >= pm.inner_completed_steps
                 /\ pm'.inner_task.completed >= pm.inner_task.completed]_vars
    /\ [](pc \in BeforeReset =>
              /\ stats.total_middle_iterations
                     = outer_idx * config.middle_iterations
              /\ KindCount(pm.messages, "Starting inner loop")
                     = outer_idx * config.middle_iterations
              /\ KindCount(pm.messages, "Completed middle loop") = outer_idx)
    /\ [](pc \in AfterReset =>
              /\ KindCount(pm.messages, "Starting middle loop") = outer_idx + 1
              /\ pm.inner_task.completed <= cumulative_inner
              /\ pc # "middle_return" =>
                     pm.inner_task.total
                         = config.middle_iterations * config.inner_iterations)

\* the reset of the second outer iteration has returned, after the clock
\* moved and the first iteration had filled the bar
C19_Witness ==
    /\ pc = "middle_head"
    /\ outer_idx = 1
    /\ middle_idx = 0
    /\ pm.inner_start_time > 1
    /\ pm.inner_task.completed = 0
    /\ pm.inner_task.total = (MaxMiddle + 1) * (MaxInner + 1)
    /\ stats.total_inner_iterations > 0

\* --------------------------------------------------------------- C20
\* C20: complete_inner(cumulative_inner), called after the last middle
\* iteration of an outer iteration, leaves the inner bar at completed = total
\* = cumulative_inner (a total below middle * inner exactly when an inner
\* loop was cut short) with the status 'Complete!'; complete_outer is called
\* once, after the advance_outer of the last outer iteration, and leaves the
\* outer bar at completed = outer_total.
C20_CompleteCalls ==
    /\ [][pc = "complete_inner" /\ pc' = "middle_return" =>
              /\ middle_idx = config.middle_iterations
              /\ pm'.inner_task.completed = cumulative_inner
              /\ pm'.inner_task.total = cumulative_inner
              /\ pm'.inner_task.status = CompleteLabel
              /\ pm'.inner_task.total
                     <= config.middle_iterations * config.inner_iterations
              /\ (pm'.inner_task.total
                      < config.middle_iterations * config.inner_iterations)
                   <=> (\E n \in 1 .. Len(pm.messages) :
                            /\ pm.messages[n].kind = "Short-circuit"
                            /\ pm.messages[n].b = outer_idx)]_vars
    /\ [][pc = "complete_outer" /\ pc' = "outer_return" =>
              /\ outer_idx = config.outer_iterations
              /\ stats.total_outer_iterations = config.outer_iterations
              /\ pm.outer_task.completed = config.outer_iterations
              /\ pm.outer_task.status # CompleteLabel
              /\ pm'.outer_task.completed = pm'.outer_total
              /\ pm'.outer_task.completed = pm'.outer_task.total
              /\ pm'.outer_task.status = CompleteLabel]_vars
    /\ [][pm'.outer_task.status = CompleteLabel /\ pm.outer_task.status # CompleteLabel
              => pc = "complete_outer"]_vars
    /\ [](pm.outer_task.status = CompleteLabel =>
              pc \in {"outer_return", "run_tasks_end", "returned"})

\* a finished run of the longest kind in which every inner loop was cut
\* short: the inner bar was completed at a total below middle * inner, the
\* outer bar at its own total
C20_Witness ==
    /\ phase = "completed"
    /\ config.outer_iterations = MaxOuter + 1
    /\ config.middle_iterations = MaxMiddle + 1
    /\ pm.inner_task.status = CompleteLabel
    /\ pm.inner_task.completed = pm.inner_task.total
    /\ pm.inner_task.total = MaxMiddle + 1
    /\ pm.inner_task.total < config.middle_iterations * config.inner_iterations
    /\ pm.outer_task.status = CompleteLabel
    /\ pm.outer_task.completed = MaxOuter + 1

\* --------------------------------------------------------------- C21
\* where the Executor is suspended, or was when the cancellation reached it
SuspensionPoints == {"work_pause", "middle_pause", "cancelled"}

\* C21: whenever the Executor is suspended (in the work pause, in the pause
\* between two middle iterations, or cancelled in one of them) the outer
\* bar's completed value equals total_outer_iterations; in the pause between
\* two middle iterations the middle iteration just done has been counted and
\* the inner bar's completed value equals the inner steps accumulated in the
\* current outer iteration.
C21_BarsAgreeAtSuspension ==
    /\ pc \in SuspensionPoints =>
           pm.outer_task.completed = stats.total_outer_iterations
    /\ pc = "middle_pause" =>
           /\ pm.inner_task.completed = cumulative_inner
           /\ stats.total_middle_iterations
                  = outer_idx * config.middle_iterations + middle_idx + 1

\* the pause after the second middle iteration of the second outer iteration
C21_Witness ==
    /\ pc = "middle_pause"
    /\ outer_idx = 1
    /\ middle_idx = 1
    /\ stats.total_outer_iterations = 1
    /\ pm.outer_task.completed = 1
    /\ cumulative_inner = 2 * (MaxInner + 1)
    /\ pm.inner_task.completed = cumulative_inner

\* --------------------------------------------------------------- C22
\* the most work pauses a run of this configuration can make
MaxWorkPauses ==
    config.outer_iterations * config.middle_iterations * config.inner_iterations

\* the pauses between middle iterations a full run of this configuration makes
MiddlePauses == config.outer_iterations * config.middle_iterations

\* C22: a run that is not cancelled terminates, whatever the draws (it ends
\* completed, or refused for its options, unless it is interrupted): every
\* work pause that returns is one more of at most outer * middle * inner
\* inner steps, every middle iteration ends in exactly one pause (the middle
\* index moves on only out of that pause, outer * middle times in all), and
\* then complete_outer runs, run_tasks returns and the Live display is
\* stopped.
C22_RunTerminates ==
    /\ <>(phase \in {"completed", "exit_1", "exit_2"} \/ interrupted)
    /\ [](pc = "work_pause" => stats.total_inner_iterations < MaxWorkPauses)
    /\ [][pc = "work_pause" /\ pc' = "inner_head" =>
              stats'.total_inner_iterations = stats.total_inner_iterations + 1]_vars
    /\ [](pc = "middle_pause" =>
              /\ stats.total_middle_iterations
                     = outer_idx * config.middle_iterations + middle_idx + 1
              /\ stats.total_middle_iterations <= MiddlePauses)
    /\ [][middle_idx' = middle_idx + 1 => pc = "middle_pause"]_vars
    /\ [](phase = "completed" =>
              /\ ~interrupted
              /\ pc = "returned"
              /\ live = "Stopped"
              /\ pm.outer_task.status = CompleteLabel
              /\ stats.total_middle_iterations = MiddlePauses
              /\ stats.total_inner_iterations <= MaxWorkPauses)

\* the longest run has ended, uncancelled, with every pause made
C22_Witness ==
    /\ phase = "completed"
    /\ ~interrupted
    /\ live = "Stopped"
    /\ config.outer_iterations = MaxOuter
    /\ stats.total_middle_iterations = MaxOuter * MaxMiddle
    /\ stats.total_inner_iterations = MaxOuter * MaxMiddle * MaxInner
    /\ pm.outer_task.status = CompleteLabel

\* --------------------------------------------------------------- C23
\* the inner loops started so far: each begins with its 'Starting inner
\* loop' message
InnerLoopsStarted == KindCount(pm.messages, "Starting inner loop")

\* the short-circuits recorded for the inner loop of middle iteration m of
\* outer iteration o
ShortCircuitsOf(o, m) ==
    Cardinality({n \in 1 .. Len(pm.messages) :
                     /\ pm.messages[n].kind = "Short-circuit"
                     /\ pm.messages[n].b = o
                     /\ pm.messages[n].c = m})

\* the sum of the counts the inner loops returned: every middle_loop reports
\* its cumulative_inner in its 'Completed middle loop' message
RECURSIVE ReturnedSum(_)
ReturnedSum(msgs) ==
    IF msgs = << >> THEN 0
    ELSE (IF Head(msgs).kind = "Completed middle loop" THEN Head(msgs).b ELSE 0)
             + ReturnedSum(Tail(msgs))

\* C23: in every reachable state short_circuit_count is at most the number
\* of inner loops started, no inner loop having more than one short-circuit,
\* and total_inner is at most that number times inner_iterations; after a
\* full run total_inner is the sum of the counts the inner loops returned,
\* it lies between outer * middle and outer * middle * inner, and
\* short_circuit_count is at most total_middle.
C23_CounterBounds ==
    /\ stats.short_circuit_count <= InnerLoopsStarted
    /\ \A o \in 0 .. outer_idx, m \in 0 .. middle_idx : ShortCircuitsOf(o, m) <= 1
    /\ stats.total_inner_iterations <= InnerLoopsStarted * config.inner_iterations
    /\ phase = "completed" =>
           /\ stats.total_inner_iterations = ReturnedSum(pm.messages)
           /\ config.outer_iterations * config.middle_iterations
                  <= stats.total_inner_iterations
           /\ stats.total_inner_iterations
                  <= config.outer_iterations * config.middle_iterations
                         * config.inner_iterations
           /\ stats.short_circuit_count <= stats.total_middle_iterations

\* a full run whose every inner loop was cut short after its first step, the
\* probability being 0.3: total_inner is at its lower bound
C23_Witness ==
    /\ phase = "completed"
    /\ config.short_circuit_probability = 3
    /\ config.inner_iterations = MaxInner
    /\ InnerLoopsStarted = MaxOuter * MaxMiddle
    /\ stats.short_circuit_count = InnerLoopsStarted
    /\ stats.total_inner_iterations = MaxOuter * MaxMiddle
    /\ ReturnedSum(pm.messages) = MaxOuter * MaxMiddle

====
